---- MODULE Spec2Model ----
(***************************************************************************)
(* Model of prompt-merge.py: the template index (get_all_templates), the   *)
(* interactive checkbox selector (interactive_select), the merge engine    *)
(* (merge_templates) and the "go" command of main.                         *)
(*                                                                         *)
(* Python strings are TLA+ strings; the str methods the program uses       *)
(* (startswith, strip, split, join, lower, slicing, comparison) are        *)
(* written out character by character.  Python list indices are 0-based,   *)
(* TLA+ sequences 1-based: `current` keeps the program's 0-based value.    *)
(***************************************************************************)
EXTENDS Integers, Sequences, FiniteSets, TLC

(***************************************************************************)
(* Bounds of the model.                                                    *)
(***************************************************************************)
\* number of files of FilePool that may exist under the templates directory
MaxFiles == 3
\* longest template content, in lines, handed to merge_templates on its own
MaxLines == 4
\* longest list handed to merge_templates on its own
MaxArgs == 3
\* lines in each of two template files merged together
MaxPairLines == 2
\* header lines of the template file that is listed
MaxHeadLines == 3

(***************************************************************************)
(* str helpers                                                             *)
(***************************************************************************)
Char(s, i) == SubSeq(s, i, i)

\* s[a:b] for 0 <= a, with Python's clamping at the end of the string
Slice(s, a, b) == IF a >= Len(s) \/ b <= a THEN "" ELSE SubSeq(s, a + 1, IF b > Len(s) THEN Len(s) ELSE b)

StartsWith(s, p) == Len(s) >= Len(p) /\ SubSeq(s, 1, Len(p)) = p

\* the characters str.strip() removes (those a TLA+ string can hold)
Whitespace == {" ", "\t", "\n", "\r", "\f"}

RECURSIVE LStripFrom(_, _)
LStripFrom(s, i) ==
    IF i > Len(s) THEN ""
    ELSE IF Char(s, i) \in Whitespace THEN LStripFrom(s, i + 1)
    ELSE SubSeq(s, i, Len(s))

RECURSIVE RStripTo(_, _)
RStripTo(s, j) ==
    IF j < 1 THEN ""
    ELSE IF Char(s, j) \in Whitespace THEN RStripTo(s, j - 1)
    ELSE SubSeq(s, 1, j)

Strip(s) == RStripTo(LStripFrom(s, 1), Len(LStripFrom(s, 1)))

\* s.split(sep) for a one-character sep: the pieces between the separators
Split(s, sep) ==
    LET at == { i \in 1..Len(s) : Char(s, i) = sep }
        n == Cardinality(at)
        pos == [k \in 1..n |-> CHOOSE i \in at : Cardinality({ j \in at : j < i }) = k - 1]
    IN [k \in 1..(n + 1) |->
           SubSeq(s, IF k = 1 THEN 1 ELSE pos[k - 1] + 1,
                     IF k = n + 1 THEN Len(s) ELSE pos[k] - 1)]

RECURSIVE Join(_, _)
Join(sep, parts) ==
    IF parts = << >> THEN ""
    ELSE IF Len(parts) = 1 THEN parts[1]
    ELSE parts[1] \o sep \o Join(sep, Tail(parts))

UpperAlpha == "ABCDEFGHIJKLMNOPQRSTUVWXYZ"
LowerAlpha == "abcdefghijklmnopqrstuvwxyz"

LowerChar(c) ==
    IF \E i \in 1..26 : Char(UpperAlpha, i) = c
    THEN Char(LowerAlpha, CHOOSE i \in 1..26 : Char(UpperAlpha, i) = c)
    ELSE c

RECURSIVE Lower(_)
Lower(s) == IF s = "" THEN "" ELSE LowerChar(Char(s, 1)) \o Lower(SubSeq(s, 2, Len(s)))

\* sub in s
Contains(s, sub) == \E i \in 1..(Len(s) - Len(sub) + 1) : SubSeq(s, i, i + Len(sub) - 1) = sub

\* printable ASCII in code-point order: 32..95 and 97..126 (a TLA+ string
\* cannot hold the backquote, 96)
AsciiLow == " !\"#$%&'()*+,-./0123456789:;<=>?@ABCDEFGHIJKLMNOPQRSTUVWXYZ[\\]^_"
AsciiHigh == "abcdefghijklmnopqrstuvwxyz{|}~"

\* ord(c)
Ord(c) ==
    IF \E i \in 1..Len(AsciiLow) : Char(AsciiLow, i) = c
    THEN 31 + (CHOOSE i \in 1..Len(AsciiLow) : Char(AsciiLow, i) = c)
    ELSE 96 + (CHOOSE i \in 1..Len(AsciiHigh) : Char(AsciiHigh, i) = c)

RECURSIVE StrLessFrom(_, _, _)
StrLessFrom(a, b, i) ==
    IF i > Len(b) THEN FALSE
    ELSE IF i > Len(a) THEN TRUE
    ELSE IF Char(a, i) = Char(b, i) THEN StrLessFrom(a, b, i + 1)
    ELSE Ord(Char(a, i)) < Ord(Char(b, i))

\* a < b on str
StrLess(a, b) == StrLessFrom(a, b, 1)

(***************************************************************************)
(* Template Index: get_all_templates                                       *)
(***************************************************************************)
ExtendsMarker == "> **Extends:**"
ThisExtensionMarker == "> This extension"

\* the files that may exist under TEMPLATES_DIR, by relative path
FilePool == << "base.md", "ext.md", "java/Base-style.md", "notes.md" >>

\* what each of them holds
FileText(p) ==
    CASE p = "base.md" -> "# Base rules\n\nAlways write tests.\n"
      [] p = "ext.md" -> "# Ext\n> **Extends:** base.md\n> This extension adds X.\n\nBody text\n"
      [] p = "java/Base-style.md" -> "> note\n---\nUse records.\n# Late title\n"
      [] OTHER -> "plain notes"

\* Path.name: the last component
PathName(p) == Split(p, "/")[Len(Split(p, "/"))]

RECURSIVE LastDot(_, _)
LastDot(name, i) == IF i < 1 THEN 0 ELSE IF Char(name, i) = "." THEN i ELSE LastDot(name, i - 1)

\* Path.stem: the name without its last suffix
PathStem(p) ==
    LET name == PathName(p)
        d == LastDot(name, Len(name))
    IN IF d > 1 /\ d < Len(name) THEN SubSeq(name, 1, d - 1) ELSE name

RECURSIVE PartsLess(_, _)
PartsLess(a, b) ==
    IF b = << >> THEN FALSE
    ELSE IF a = << >> THEN TRUE
    ELSE IF a[1] = b[1] THEN PartsLess(Tail(a), Tail(b))
    ELSE StrLess(a[1], b[1])

\* Path.__lt__: paths compare as their lists of components
PathLess(a, b) == PartsLess(Split(a, "/"), Split(b, "/"))

\* sorted(TEMPLATES_DIR.rglob("*.md")) over the set of paths that exist
RECURSIVE SortedPaths(_)
SortedPaths(S) ==
    IF S = {} THEN << >>
    ELSE LET m == CHOOSE x \in S : \A y \in S \ {x} : PathLess(x, y)
         IN << m >> \o SortedPaths(S \ {m})

\* f.readlines(); the line terminators are left out, line.strip() removes them
ReadLines(text) ==
    LET parts == Split(text, "\n")
    IN IF parts[Len(parts)] = "" THEN SubSeq(parts, 1, Len(parts) - 1) ELSE parts

HeaderLines == 10
DescriptionWidth == 80

\* the loop over lines[:10]; h is [title, description, extends]
RECURSIVE ScanHeader(_, _, _)
ScanHeader(lines, i, h) ==
    IF i > Len(lines) \/ i > HeaderLines THEN h
    ELSE LET line == Strip(lines[i])
         IN IF StartsWith(line, "# ")
            THEN ScanHeader(lines, i + 1, [h EXCEPT !.title = Strip(Slice(line, 2, Len(line)))])
            ELSE IF StartsWith(line, ExtendsMarker)
            THEN ScanHeader(lines, i + 1, [h EXCEPT !.extends = << line >>])
            ELSE IF line # "" /\ ~StartsWith(line, "#") /\ ~StartsWith(line, ">")
            THEN [h EXCEPT !.description =
                     Slice(line, 0, DescriptionWidth)
                         \o (IF Len(line) > DescriptionWidth THEN "..." ELSE "")]
            ELSE ScanHeader(lines, i + 1, h)

\* "base" in md_file.name.lower()
IsBaseName(p) == Contains(Lower(PathName(p)), "base")

\* the dict appended for one file; extends None is << >>
TemplateOf(p, text) ==
    LET h == ScanHeader(ReadLines(text), 1, [title |-> PathStem(p), description |-> "", extends |-> << >>])
    IN [path |-> p, rel_path |-> p, title |-> h.title, description |-> h.description,
        extends |-> h.extends, is_base |-> IsBaseName(p)]

get_all_templates(fs) ==
    LET ps == SortedPaths(DOMAIN fs)
    IN [i \in 1..Len(ps) |-> TemplateOf(ps[i], fs[ps[i]])]

(***************************************************************************)
(* Merge Engine: merge_templates                                           *)
(***************************************************************************)
\* the -o/--output default
OutputPath == "CLAUDE.md"

Digits == "0123456789"

\* str(n) for 0 <= n
RECURSIVE IntStr(_)
IntStr(n) == IF n < 10 THEN Char(Digits, n + 1) ELSE IntStr(n \div 10) \o Char(Digits, (n % 10) + 1)

\* a sort key that leaves is_base out
KeyLess_PathOnly(a, b) == StrLess(a.rel_path, b.rel_path)

\* (not a["is_base"], a["rel_path"]) < (not b["is_base"], b["rel_path"])
KeyLess(a, b) ==
    IF a.is_base # b.is_base THEN a.is_base
    ELSE StrLess(a.rel_path, b.rel_path)

\* x put behind the last element of the sorted list s that is not greater
RECURSIVE InsertSorted(_, _)
InsertSorted(x, s) ==
    IF s = << >> THEN << x >>
    ELSE IF KeyLess(x, s[1]) THEN << x >> \o s
    ELSE << s[1] >> \o InsertSorted(x, Tail(s))

\* sorted(templates, key=...): stable
RECURSIVE SortedTemplates(_)
SortedTemplates(ts) ==
    IF ts = << >> THEN << >>
    ELSE InsertSorted(ts[Len(ts)], SortedTemplates(SubSeq(ts, 1, Len(ts) - 1)))

\* the loop over lines: skip is skip_next_empty, acc is filtered_lines
RECURSIVE FilterFrom(_, _, _, _)
FilterFrom(lines, i, skip, acc) ==
    IF i > Len(lines) THEN acc
    ELSE LET line == lines[i]
         IN IF StartsWith(line, ExtendsMarker) \/ StartsWith(line, ThisExtensionMarker)
            THEN FilterFrom(lines, i + 1, TRUE, acc)
            ELSE IF skip /\ Strip(line) = ""
            THEN FilterFrom(lines, i + 1, FALSE, acc)
            ELSE IF skip /\ StartsWith(line, ">")
            THEN FilterFrom(lines, i + 1, skip, acc)
            ELSE FilterFrom(lines, i + 1, FALSE, Append(acc, line))

\* a filter that starts as if a marker line had just been seen
FilterLines_SkipFromStart(lines) == FilterFrom(lines, 1, TRUE, << >>)

\* filtered_lines of lines, skip_next_empty being False at the start
FilterLines(lines) == FilterFrom(lines, 1, FALSE, << >>)

\* content, from f.read() to the value handed to content.strip()
FilterContent(content) == Join("\n", FilterLines(Split(content, "\n")))

\* a separator in front of every template, the first too
Separator_Always(i) == << "", "---", "" >>

\* what one round of the loop over the sorted templates appends; i is 0-based
Separator(i) == IF i > 0 THEN << "", "---", "" >> ELSE << >>

MergeHeader(ts) ==
    << "# CLAUDE.md",
       "",
       "<!-- Generated by prompt-merge.py -->",
       "<!-- Sources: " \o Join(", ", [k \in 1..Len(ts) |-> ts[k].rel_path]) \o " -->",
       "" >>

RECURSIVE MergeLoop(_, _, _, _)
MergeLoop(ts, fs, i, mc) ==
    IF i >= Len(ts) THEN mc
    ELSE MergeLoop(ts, fs, i + 1,
                   mc \o Separator(i) \o << Strip(FilterContent(fs[ts[i + 1].path])) >>)

\* merged_content when the file is written, for the sorted templates ts
MergedContent(ts, fs) == Append(MergeLoop(ts, fs, 0, MergeHeader(ts)), "")

\* the lines printed after the write
MergeReport(ts, output_path) ==
    << "Merged " \o IntStr(Len(ts)) \o " template(s) into " \o output_path,
       "\nIncluded templates:" >>
    \o [k \in 1..Len(ts) |-> "  - " \o ts[k].rel_path]

(***************************************************************************)
(* Selection State Machine and Renderer: interactive_select                *)
(***************************************************************************)
\* bytes sys.stdin.read(1) can return that a TLA+ string cannot hold
ESC == "<ESC>"
ETX == "<ETX>"

\* the bytes one key press puts on stdin: the keys the loop tests for, a key
\* it does not ("["), the empty string of an exhausted input, the Escape key
\* alone, the up and down arrows, keypad 1 in application mode (ESC O q) and
\* Home (ESC [ 1 ~)
KeyEvents ==
    { << "k" >>, << "j" >>, << " " >>, << "\r" >>, << "\n" >>, << "q" >>, << ETX >>,
      << "[" >>, << "" >>, << ESC >>,
      << ESC, "[", "A" >>, << ESC, "[", "B" >>, << ESC, "O", "q" >>,
      << ESC, "[", "1", "~" >> }

\* what one read returns
Bytes == UNION { { e[i] : i \in 1..Len(e) } : e \in KeyEvents }

ClearScreen == ESC \o "[2J" \o ESC \o "[H"

\* text.replace("\n", "\r\n"), what write() sends to the terminal
CrLf(text) == Join("\r\n", Split(text, "\n"))

\* an Up that does not wrap
MoveUp_NoWrap(cur, n) == cur - 1

\* (current - 1) % len(templates)
MoveUp(cur, n) == (cur - 1) % n

\* a Down that stops at the last row
MoveDown_NoWrap(cur, n) == IF cur + 1 < n THEN cur + 1 ELSE cur

\* (current + 1) % len(templates)
MoveDown(cur, n) == (cur + 1) % n

\* a Space that only selects
Toggle_SetOnly(sel, cur) == [sel EXCEPT ![cur + 1] = TRUE]

\* selected[current] = not selected[current]
Toggle(sel, cur) == [sel EXCEPT ![cur + 1] = ~@]

\* sum(selected)
RECURSIVE SumSelected(_)
SumSelected(sel) == IF sel = << >> THEN 0 ELSE (IF sel[1] THEN 1 ELSE 0) + SumSelected(Tail(sel))

\* rows that mark the first item whatever the cursor is
RenderRow_CursorOnFirst(ts, sel, cur, i) ==
    LET t == ts[i + 1]
        cursor == IF i = 0 THEN ">" ELSE " "
        check == IF sel[i + 1] THEN "[x]" ELSE "[ ]"
        base_marker == IF t.is_base THEN " [BASE]" ELSE ""
    IN << CrLf(" " \o cursor \o " " \o check \o " " \o t.rel_path \o base_marker \o "\n"),
          CrLf("       " \o t.title \o "\n") >>

\* the two write() calls of render for the item at 0-based index i
RenderRow(ts, sel, cur, i) ==
    LET t == ts[i + 1]
        cursor == IF i = cur THEN ">" ELSE " "
        check == IF sel[i + 1] THEN "[x]" ELSE "[ ]"
        base_marker == IF t.is_base THEN " [BASE]" ELSE ""
    IN << CrLf(" " \o cursor \o " " \o check \o " " \o t.rel_path \o base_marker \o "\n"),
          CrLf("       " \o t.title \o "\n") >>

RECURSIVE RenderRows(_, _, _, _)
RenderRows(ts, sel, cur, i) ==
    IF i >= Len(ts) THEN << >>
    ELSE RenderRow(ts, sel, cur, i) \o RenderRows(ts, sel, cur, i + 1)

\* the texts render() passes to sys.stdout.write, in order
RenderWrites(ts, sel, cur) ==
    << CrLf(ClearScreen),
       CrLf("Select templates to merge (SPACE to toggle, ENTER to confirm, q to quit):\n\n") >>
    \o RenderRows(ts, sel, cur, 0)
    \o << CrLf("\n" \o IntStr(SumSelected(sel)) \o " template(s) selected") >>

\* a result that ignores the flags
SelectedTemplates_All(ts, sel) == ts

\* [t for i, t in enumerate(templates) if selected[i]]
RECURSIVE SelectedTemplates(_, _)
SelectedTemplates(ts, sel) ==
    IF ts = << >> THEN << >>
    ELSE (IF sel[1] THEN << ts[1] >> ELSE << >>) \o SelectedTemplates(Tail(ts), Tail(sel))

(***************************************************************************)
(* State                                                                   *)
(***************************************************************************)
VARIABLES
    pc,              \* where the program is
    files,           \* the templates directory: relative path -> content
    templates,       \* main: get_all_templates(); interactive_select: its argument
    selected,        \* interactive_select: selected
    current,         \* interactive_select: current (0-based)
    state,           \* the selector: NotStarted, Running, Confirmed or Cancelled
    term,            \* the attributes of the controlling terminal
    old_settings,    \* interactive_select: old_settings, "unset" before tcgetattr
    exc,             \* the exception being raised, "none" without one
    retval,          \* what interactive_select returned
    args,            \* merge_templates: templates
    outFile,         \* the output file: << >> when absent, << text >> when present
    opens,           \* how often the output file was opened for writing
    merged_content,  \* merge_templates: merged_content when the output was joined
    printed,         \* everything written to stdout but render's frames
    screen,          \* the write() calls the last render completed
    status,          \* the exit status, -1 while the process runs
    run,             \* the current run of equal key events and the state it began in
    pending,         \* the bytes of the key press in flight that no read has returned yet
    ch,              \* interactive_select: what the last read returned (ch, ch2 or ch3)
    frames           \* the renders completed since the loop began or a key event completed

vars == << pc, files, templates, selected, current, state, term, old_settings, exc,
           retval, args, outFile, opens, merged_content, printed, screen, status, run,
           pending, ch, frames >>

\* terminal attributes a shell hands to the program; tty.setraw makes them "raw"
TermModes == { "cooked", "cbreak" }

NoRun == [kind |-> "none", len |-> 0, cur |-> 0, sel |-> << >>]

\* runs are followed up to N moves in a row and 2 toggles in a row
RunCap(kind, n) == IF kind = "toggle" THEN 2 ELSE n

\* the run after a key event of the given kind hit the state (cur, sel)
RunAfter(kind, r, cur, sel, n) ==
    IF kind \notin { "up", "down", "toggle" } THEN NoRun
    ELSE IF r.kind = kind /\ r.len < RunCap(kind, n) THEN [r EXCEPT !.len = @ + 1]
    ELSE [kind |-> kind, len |-> 1, cur |-> cur, sel |-> sel]

\* the entries texts add to printed, each with the terminal mode it met
Printed(texts) == printed \o [k \in 1..Len(texts) |-> [text |-> texts[k], tty |-> term]]

PoolFiles == { FilePool[i] : i \in 1..(IF MaxFiles < Len(FilePool) THEN MaxFiles ELSE Len(FilePool)) }

\* the process at the start of "prompt-merge.py go"
Init ==
    /\ pc = "main"
    /\ \E S \in SUBSET PoolFiles : files = [p \in S |-> FileText(p)]
    /\ term \in TermModes
    /\ outFile \in { << >>, << "old" >> }
    /\ templates = << >>
    /\ selected = << >>
    /\ current = 0
    /\ state = "NotStarted"
    /\ old_settings = "unset"
    /\ exc = "none"
    /\ retval = << >>
    /\ args = << >>
    /\ opens = 0
    /\ merged_content = << >>
    /\ printed = << >>
    /\ screen = << >>
    /\ status = -1
    /\ run = NoRun
    /\ pending = << >>
    /\ ch = "unset"
    /\ frames = 0

(***************************************************************************)
(* main, the go command, up to the call of interactive_select              *)
(***************************************************************************)
\* main: get_all_templates, the exit on an empty index, and the first two
\* assignments of interactive_select
Main ==
    /\ pc = "main"
    /\ templates' = get_all_templates(files)
    /\ IF templates' = << >>
       THEN /\ printed' = Printed(<< "No templates found in templates" >>)
            /\ status' = 1
            /\ pc' = "exit"
            /\ UNCHANGED << selected, current, state >>
       ELSE /\ selected' = [i \in 1..Len(templates') |-> FALSE]
            /\ current' = 0
            /\ state' = "Running"
            /\ pc' = "tcgetattr"
            /\ UNCHANGED << printed, status >>
    /\ UNCHANGED << files, term, old_settings, exc, retval, args, outFile, opens,
                    merged_content, screen, run,
                    pending, ch, frames >>

\* old_settings = termios.tcgetattr(fd); it raises when stdin is no terminal
TcGetAttr ==
    /\ pc = "tcgetattr"
    /\ \/ /\ old_settings' = term
          /\ pc' = "setraw"
          /\ UNCHANGED exc
       \/ /\ exc' = "tcgetattr"
          /\ pc' = "raised"
          /\ UNCHANGED old_settings
    /\ UNCHANGED << files, templates, selected, current, state, term, retval, args,
                    outFile, opens, merged_content, printed, screen, status, run,
                    pending, ch, frames >>

\* tty.setraw(fd), the first statement of the try block
SetRaw ==
    /\ pc = "setraw"
    /\ \/ /\ term' = "raw"
          /\ pc' = "render"
          /\ UNCHANGED exc
       \/ /\ exc' = "setraw"
          /\ pc' = "finally"
          /\ UNCHANGED term
    /\ UNCHANGED << files, templates, selected, current, state, old_settings, retval, args,
                    outFile, opens, merged_content, printed, screen, status, run,
                    pending, ch, frames >>

\* render(): its write() calls in order; a failing write raises out of the loop
Render ==
    /\ pc = "render"
    /\ LET writes == RenderWrites(templates, selected, current)
       IN \E k \in 0..Len(writes) :
            /\ screen' = SubSeq(writes, 1, k)
            /\ IF k = Len(writes)
               THEN pc' = "read1" /\ frames' = frames + 1 /\ UNCHANGED exc
               ELSE pc' = "finally" /\ exc' = "render" /\ UNCHANGED frames
    /\ UNCHANGED << files, templates, selected, current, state, term, old_settings, retval,
                    args, outFile, opens, merged_content, printed, status, run,
                    pending, ch >>

(***************************************************************************)
(* interactive_select: the loop                                            *)
(***************************************************************************)
\* a chain whose last branch toggles on any other byte
KeyKind_OtherToggles(b) ==
    CASE b = ESC -> "escape"
      [] b = "k" -> "up"
      [] b = "j" -> "down"
      [] b = "\r" \/ b = "\n" -> "confirm"
      [] b = "q" \/ b = ETX -> "cancel"
      [] OTHER -> "toggle"

\* a chain that quits at the end of the input
KeyKind_EofQuits(b) ==
    CASE b = ESC -> "escape"
      [] b = "k" -> "up"
      [] b = "j" -> "down"
      [] b = " " -> "toggle"
      [] b = "\r" \/ b = "\n" -> "confirm"
      [] b = "q" \/ b = ETX \/ b = "" -> "cancel"
      [] OTHER -> "other"

\* a chain without the branches that end the loop
KeyKind_NeverEnds(b) ==
    CASE b = ESC -> "escape"
      [] b = "k" -> "up"
      [] b = "j" -> "down"
      [] b = " " -> "toggle"
      [] OTHER -> "other"

\* the kind of key event a first byte is, "escape" when more bytes follow
KeyKind(b) ==
    CASE b = ESC -> "escape"
      [] b = "k" -> "up"
      [] b = "j" -> "down"
      [] b = " " -> "toggle"
      [] b = "\r" \/ b = "\n" -> "confirm"
      [] b = "q" \/ b = ETX -> "cancel"
      [] OTHER -> "other"

\* the kind of key event the byte after ESC [ makes
ArrowKind(ch3) ==
    CASE ch3 = "A" -> "up"
      [] ch3 = "B" -> "down"
      [] OTHER -> "other"

\* a loop that reads the next key without a render in between
Apply_NoRender(kind) ==
    /\ current' = CASE kind = "up" -> MoveUp(current, Len(templates))
                    [] kind = "down" -> MoveDown(current, Len(templates))
                    [] OTHER -> current
    /\ selected' = IF kind = "toggle" THEN Toggle(selected, current) ELSE selected
    /\ run' = RunAfter(kind, run, current, selected, Len(templates))
    /\ frames' = 0
    /\ pc' = "read1"
    /\ UNCHANGED << state, exc >>

\* a completed up, down, toggle or ignored event: the assignment, then the
\* loop goes round to render
Apply(kind) ==
    /\ current' = CASE kind = "up" -> MoveUp(current, Len(templates))
                    [] kind = "down" -> MoveDown(current, Len(templates))
                    [] OTHER -> current
    /\ selected' = IF kind = "toggle" THEN Toggle(selected, current) ELSE selected
    /\ run' = RunAfter(kind, run, current, selected, Len(templates))
    /\ frames' = 0
    /\ pc' = "render"
    /\ UNCHANGED << state, exc >>

\* a read that raises instead of returning
ReadFails ==
    /\ exc' = "read"
    /\ pc' = "finally"
    /\ UNCHANGED << current, selected, state, run, pending, ch, frames >>

\* a break that skips the finally block
AfterBreak_Clear == "clear"

\* where "break" leaves the try block: through the finally block
AfterBreak == "finally"

\* sys.stdin.read(1) returns b: the next byte of the key press in flight, or
\* the first byte of the next key press
Read(b) ==
    /\ IF pending # << >>
       THEN b = Head(pending) /\ pending' = Tail(pending)
       ELSE \E e \in KeyEvents : b = e[1] /\ pending' = Tail(e)
    /\ ch' = b

\* ch = sys.stdin.read(1) and the if/elif chain on ch
ReadKey ==
    /\ pc = "read1"
    /\ \/ \E b \in Bytes :
            /\ Read(b)
            /\ LET kind == KeyKind(b)
               IN CASE kind = "escape" ->
                         /\ pc' = "read2"
                         /\ UNCHANGED << current, selected, state, exc, run, frames >>
                    [] kind = "confirm" ->
                         /\ state' = "Confirmed"
                         /\ pc' = AfterBreak
                         /\ UNCHANGED << current, selected, exc, run, frames >>
                    [] kind = "cancel" ->
                         /\ state' = "Cancelled"
                         /\ pc' = "cancel"
                         /\ UNCHANGED << current, selected, exc, run, frames >>
                    [] OTHER -> Apply(kind)
       \/ ReadFails
    /\ UNCHANGED << files, templates, term, old_settings, retval, args, outFile, opens,
                    merged_content, printed, screen, status >>

\* ch2 = sys.stdin.read(1) after ESC
ReadEsc2 ==
    /\ pc = "read2"
    /\ \/ \E ch2 \in Bytes :
            /\ Read(ch2)
            /\ IF ch2 = "["
               THEN /\ pc' = "read3"
                    /\ UNCHANGED << current, selected, state, exc, run, frames >>
               ELSE Apply("other")
       \/ ReadFails
    /\ UNCHANGED << files, templates, term, old_settings, retval, args, outFile, opens,
                    merged_content, printed, screen, status >>

\* ch3 = sys.stdin.read(1) after ESC [
ReadEsc3 ==
    /\ pc = "read3"
    /\ \/ \E ch3 \in Bytes : Read(ch3) /\ Apply(ArrowKind(ch3))
       \/ ReadFails
    /\ UNCHANGED << files, templates, term, old_settings, retval, args, outFile, opens,
                    merged_content, printed, screen, status >>

\* a cancel that returns what is selected
CancelledResult_Selection == SelectedTemplates(templates, selected)

\* the value of "return []"
CancelledResult == << >>

\* what the q / Ctrl-C branch writes through write()
CancelWrites == << CrLf(ClearScreen), CrLf("Cancelled.\n") >>

\* the q / Ctrl-C branch: two write() calls, then return []
Cancel ==
    /\ pc = "cancel"
    /\ \E k \in 0..Len(CancelWrites) :
         /\ printed' = Printed(SubSeq(CancelWrites, 1, k))
         /\ IF k = Len(CancelWrites)
            THEN retval' = CancelledResult /\ UNCHANGED exc
            ELSE exc' = "write" /\ UNCHANGED retval
    /\ pc' = "finally"
    /\ UNCHANGED << files, templates, selected, current, state, term, old_settings, args,
                    outFile, opens, merged_content, screen, status, run,
                    pending, ch, frames >>

\* a finally block that leaves the attributes as they are
RestoredAttrs_Kept(old, now) == now

\* the attributes termios.tcsetattr(fd, TCSADRAIN, old_settings) leaves
RestoredAttrs(old, now) == old

\* the finally block, and where control goes from it: on with the raise, out
\* with the return value, or past the loop after break
Finally ==
    /\ pc = "finally"
    /\ term' = RestoredAttrs(old_settings, term)
    /\ pc' = IF exc # "none" THEN "raised"
             ELSE IF state = "Cancelled" THEN "returned"
             ELSE "clear"
    /\ UNCHANGED << files, templates, selected, current, state, old_settings, exc, retval,
                    args, outFile, opens, merged_content, printed, screen, status, run,
                    pending, ch, frames >>

\* after the loop: clear the screen, return the selected templates
ClearAndReturn ==
    /\ pc = "clear"
    /\ \/ /\ printed' = Printed(<< ClearScreen >>)
          /\ retval' = SelectedTemplates(templates, selected)
          /\ pc' = "returned"
          /\ UNCHANGED exc
       \/ /\ exc' = "write"
          /\ pc' = "raised"
          /\ UNCHANGED << printed, retval >>
    /\ UNCHANGED << files, templates, selected, current, state, term, old_settings, args,
                    outFile, opens, merged_content, screen, status, run,
                    pending, ch, frames >>

(***************************************************************************)
(* main after interactive_select, and merge_templates                      *)
(***************************************************************************)
\* "if selected:" in main
ShouldMerge(sel) == sel # << >>

\* main: selected = interactive_select(templates); if selected: merge_templates(...)
AfterSelect ==
    /\ pc = "returned"
    /\ IF ShouldMerge(retval)
       THEN /\ args' = retval
            /\ pc' = "merge"
            /\ UNCHANGED status
       ELSE /\ status' = 0
            /\ pc' = "exit"
            /\ UNCHANGED args
    /\ UNCHANGED << files, templates, selected, current, state, term, old_settings, exc,
                    retval, outFile, opens, merged_content, printed, screen, run,
                    pending, ch, frames >>

\* an output file opened before the templates are read
ReadFailure_AfterOpen ==
    /\ exc' = "read"
    /\ pc' = "raised"
    /\ opens' = opens + 1
    /\ outFile' = << "" >>
    /\ UNCHANGED << merged_content, printed >>

\* open(t["path"], "r") or f.read() raises for one of the templates: the
\* exception leaves merge_templates from inside the loop
ReadFailure ==
    /\ exc' = "read"
    /\ pc' = "raised"
    /\ UNCHANGED << outFile, opens, merged_content, printed >>

\* merge_templates without its test for the empty list
NothingToMerge_Never(ts) == FALSE

\* "if not templates:" in merge_templates
NothingToMerge(ts) == ts = << >>

\* merge_templates(args, OutputPath), the whole call.  A template that cannot
\* be read raises before the output is opened; open(output_path, "w") raises
\* and leaves the file alone, or truncates it and the write raises.
MergeTemplates ==
    /\ pc = "merge"
    /\ IF NothingToMerge(args)
       THEN /\ printed' = Printed(<< "No templates selected." >>)
            /\ pc' = "merge_returned"
            /\ UNCHANGED << outFile, opens, merged_content, exc >>
       ELSE LET ts == SortedTemplates(args)
                mc == MergedContent(ts, files)
            IN \/ ReadFailure
               \/ /\ exc' = "open"
                  /\ pc' = "raised"
                  /\ merged_content' = mc
                  /\ UNCHANGED << outFile, opens, printed >>
               \/ /\ exc' = "write"
                  /\ pc' = "raised"
                  /\ merged_content' = mc
                  /\ opens' = opens + 1
                  /\ outFile' = << "" >>
                  /\ UNCHANGED printed
               \/ /\ merged_content' = mc
                  /\ opens' = opens + 1
                  /\ outFile' = << Join("\n", mc) >>
                  /\ printed' = Printed(MergeReport(ts, OutputPath))
                  /\ pc' = "merge_returned"
                  /\ UNCHANGED exc
    /\ UNCHANGED << files, templates, selected, current, state, term, old_settings,
                    retval, args, screen, status, run,
                    pending, ch, frames >>

\* main returns after merge_templates did
MainReturn ==
    /\ pc = "merge_returned"
    /\ state # "NotStarted"
    /\ status' = 0
    /\ pc' = "exit"
    /\ UNCHANGED << files, templates, selected, current, state, term, old_settings, exc,
                    retval, args, outFile, opens, merged_content, printed, screen, run,
                    pending, ch, frames >>

Next ==
    \/ Main
    \/ TcGetAttr
    \/ SetRaw
    \/ Render
    \/ ReadKey
    \/ ReadEsc2
    \/ ReadEsc3
    \/ Cancel
    \/ Finally
    \/ ClearAndReturn
    \/ AfterSelect
    \/ MergeTemplates
    \/ MainReturn

\* the go command
Spec == Init /\ [][Next]_vars

(***************************************************************************)
(* The go command over a directory of two templates, with every call that   *)
(* can return returning in the end and the user pressing an ending key      *)
(***************************************************************************)
InitLive ==
    /\ Init
    /\ DOMAIN files = { "base.md", "ext.md" }
    /\ term = "cooked"
    /\ outFile = << >>

\* the first read of an iteration returns Enter, newline, q or Ctrl-C
TerminalRead == ReadKey /\ state' # "Running"

\* a step of interactive_select up to the end of the loop
LoopStep == TcGetAttr \/ SetRaw \/ Render \/ ReadKey \/ ReadEsc2 \/ ReadEsc3

\* the go command where the calls of the loop return in the end and a first
\* read returns an ending key in the end
SpecLive == InitLive /\ [][Next]_vars /\ WF_vars(LoopStep) /\ SF_vars(TerminalRead)

(***************************************************************************)
(* merge_templates called on its own, with any list of templates           *)
(***************************************************************************)
\* relative paths of the templates handed to merge_templates
MergePaths == << "b.md", "a.md", "c.md", "B.md", "base/a.md" >>

MergeText(p) == "Body of " \o p

\* the lines a template's content is made of
LineVocab ==
    { "> **Extends:** base.md",
      "> This extension adds X.",
      "",
      "Body text",
      "> quote",
      "  ",
      " > **Extends:** base.md" }

\* a template dict as merge_templates reads it
Item(p, b) ==
    [path |-> p, rel_path |-> p, title |-> PathStem(p), description |-> "",
     extends |-> << >>, is_base |-> b]

\* the lists of up to MaxArgs templates, distinct paths, in any order, any is_base
ArgLists ==
    LET P == { MergePaths[i] : i \in 1..(IF MaxArgs < Len(MergePaths) THEN MaxArgs ELSE Len(MergePaths)) }
    IN UNION { { [k \in 1..n |-> Item(ps[k], bs[k])] :
                    ps \in { q \in [1..n -> P] : \A i, j \in 1..n : i # j => q[i] # q[j] },
                    bs \in [1..n -> BOOLEAN] } : n \in 0..MaxArgs }

\* the contents of 1 to MaxLines lines of LineVocab
Contents == UNION { { Join("\n", ls) : ls \in [1..n -> LineVocab] } : n \in 1..MaxLines }

\* the lines the contents of a pair of templates are made of
PairVocab ==
    { "> **Extends:** base.md",
      "> This extension adds X.",
      "",
      "Body text",
      "  " }

\* the contents of 1 to MaxPairLines lines of PairVocab
PairContents == UNION { { Join("\n", ls) : ls \in [1..n -> PairVocab] } : n \in 1..MaxPairLines }

InitMerge ==
    /\ pc = "merge"
    /\ \/ /\ args \in ArgLists
          /\ files = [p \in { args[k].path : k \in 1..Len(args) } |-> MergeText(p)]
       \/ /\ args = << Item("t.md", FALSE) >>
          /\ \E c \in Contents : files = [p \in { "t.md" } |-> c]
       \/ /\ \E b \in BOOLEAN : args = << Item("a.md", FALSE), Item("b.md", b) >>
          /\ files \in [{ "a.md", "b.md" } -> PairContents]
    /\ term = "cooked"
    /\ outFile = << >>
    /\ templates = << >>
    /\ selected = << >>
    /\ current = 0
    /\ state = "NotStarted"
    /\ old_settings = "unset"
    /\ exc = "none"
    /\ retval = << >>
    /\ opens = 0
    /\ merged_content = << >>
    /\ printed = << >>
    /\ screen = << >>
    /\ status = -1
    /\ run = NoRun
    /\ pending = << >>
    /\ ch = "unset"
    /\ frames = 0

NextMerge == MergeTemplates

\* one call of merge_templates
SpecMerge == InitMerge /\ [][NextMerge]_vars

InitGoMerge == Init \/ InitMerge

\* the go command, or one call of merge_templates
SpecGoMerge == InitGoMerge /\ [][Next]_vars

(***************************************************************************)
(* list_templates, the --list command, over one template file              *)
(***************************************************************************)
\* "=" * 60
Rule60 == "============================================================"

\* what list_templates prints for one template
ListEntry(t) ==
    << "\n  " \o t.rel_path \o (IF t.is_base THEN " [BASE]" ELSE ""),
       "    Title: " \o t.title >>
    \o (IF t.description # "" THEN << "    " \o t.description >> ELSE << >>)
    \o (IF t.extends # << >> /\ t.extends[1] # "" THEN << "    " \o t.extends[1] >> ELSE << >>)

RECURSIVE ListEntries(_)
ListEntries(ts) == IF ts = << >> THEN << >> ELSE ListEntry(ts[1]) \o ListEntries(Tail(ts))

\* the print calls of list_templates, in order
ListReport(ts) ==
    << "\nAvailable Templates:", Rule60 >>
    \o ListEntries(ts)
    \o << "\n" \o Rule60, "Total: " \o IntStr(Len(ts)) \o " template(s)\n" >>

\* the lines the head of the listed file is made of
HeadVocab ==
    { "# One",
      "  # Two",
      "> **Extends:** a.md",
      "> **Extends:** b.md",
      "",
      "Text",
      "#tag" }

\* blank lines in front of them, to reach up to and past the tenth line
PadCounts == { 0, 8, 9, 10 }

\* 1 to MaxHeadLines lines of HeadVocab behind k blank lines
HeadContents ==
    UNION { { Join("\n", [i \in 1..k |-> ""] \o ls) : ls \in [1..n -> HeadVocab], k \in PadCounts }
            : n \in 1..MaxHeadLines }

InitList ==
    /\ pc = "list"
    /\ \E c \in HeadContents : files = [p \in { "guide.md" } |-> c]
    /\ term \in TermModes
    /\ outFile = << >>
    /\ templates = << >>
    /\ selected = << >>
    /\ current = 0
    /\ state = "NotStarted"
    /\ old_settings = "unset"
    /\ exc = "none"
    /\ retval = << >>
    /\ args = << >>
    /\ opens = 0
    /\ merged_content = << >>
    /\ printed = << >>
    /\ screen = << >>
    /\ status = -1
    /\ run = NoRun
    /\ pending = << >>
    /\ ch = "unset"
    /\ frames = 0

\* main with --list: list_templates(), then main returns
ListTemplates ==
    /\ pc = "list"
    /\ templates' = get_all_templates(files)
    /\ printed' = Printed(ListReport(templates'))
    /\ status' = 0
    /\ pc' = "exit"
    /\ UNCHANGED << files, selected, current, state, term, old_settings, exc, retval, args,
                    outFile, opens, merged_content, screen, run, pending, ch, frames >>

NextList == ListTemplates

\* the --list command
SpecList == InitList /\ [][NextList]_vars

(***************************************************************************)
(* Properties                                                              *)
(***************************************************************************)
\* interactive_select is over: it returned or its exception left it
Exited == pc \in { "raised", "returned", "merge", "merge_returned", "exit" }

\* C1: once the terminal attributes were captured, interactive_select is
\* never left (by return after Enter, by return [] after q or Ctrl-C, or by an
\* exception of setraw, render, a read or a write) with attributes other than
\* the captured ones: the terminal is not in raw mode then.
C1_TerminalRestored ==
    (Exited /\ old_settings # "unset") => (term = old_settings /\ term # "raw")

\* a read raised in the middle of the loop, after a toggle, and the exception
\* left interactive_select
C1_Witness ==
    /\ pc = "raised"
    /\ exc = "read"
    /\ \E i \in 1..Len(selected) : selected[i]
    /\ term = "cbreak"

\* C2: after q or Ctrl-C, whatever was moved and toggled before,
\* interactive_select returns the empty list (and main has nothing to merge).
C2_CancelReturnsEmpty ==
    (state = "Cancelled" /\ exc = "none" /\ pc \in { "finally", "returned", "exit" })
        => (retval = << >> /\ args = << >>)

\* cancelled with two of three flags set and the cursor moved
C2_Witness ==
    /\ pc = "returned"
    /\ state = "Cancelled"
    /\ Cardinality({ i \in 1..Len(selected) : selected[i] }) >= 2
    /\ current > 0

\* C3: after Enter or newline, interactive_select returns the templates whose
\* flag is set, each once, in index order: the k-th returned template is the
\* one at the k-th smallest set index.  The list depends on the flags only,
\* not on the cursor or the order of the toggles.
C3_ConfirmReturnsSelected ==
    (pc = "returned" /\ state = "Confirmed") =>
        LET idx == { i \in 1..Len(selected) : selected[i] }
        IN /\ Len(retval) = Cardinality(idx)
           /\ \A k \in 1..Len(retval) :
                \E i \in idx : /\ Cardinality({ j \in idx : j < i }) = k - 1
                               /\ retval[k] = templates[i]

\* confirmed with the second and third of three templates selected, the
\* cursor not on the last one toggled
C3_Witness ==
    /\ pc = "returned"
    /\ state = "Confirmed"
    /\ selected = << FALSE, TRUE, TRUE >>
    /\ current = 0
    /\ Len(retval) = 2

\* the output file was opened for writing or is not what it was at the start
Wrote == opens > 0 \/ outFile \notin { << >>, << "old" >> }

\* C4: the go command writes the output file only after the loop ended in
\* Confirmed with a flag set (never after Cancelled, never after Confirmed
\* with no flag set, never with an empty index); merge_templates called with
\* an empty list writes nothing and prints "No templates selected.".
C4_WriteOnlyOnConfirmedSelection ==
    /\ ((state # "NotStarted" \/ pc \in { "main", "exit" }) /\ Wrote)
          => (state = "Confirmed" /\ \E i \in 1..Len(selected) : selected[i])
    /\ (args = << >> /\ pc \in { "merge_returned", "raised" } /\ state = "NotStarted")
          => (~Wrote /\ pc = "merge_returned"
              /\ Len(printed) = 1 /\ printed[1].text = "No templates selected.")

\* the go command ended after Enter with every flag toggled back to false
C4_Witness ==
    /\ pc = "exit"
    /\ state = "Confirmed"
    /\ status = 0
    /\ run.kind = "toggle" /\ run.len = 2
    /\ ~Wrote

\* merge_templates returned from a call with the empty list
C4_WitnessEmptyMerge ==
    /\ pc = "merge_returned"
    /\ state = "NotStarted"
    /\ args = << >>
    /\ printed # << >>

\* a step that completes a Down, an Up event
DownStep == pc \in { "read1", "read3" } /\ pc' = "render" /\ run'.kind = "down"
UpStep == pc \in { "read1", "read3" } /\ pc' = "render" /\ run'.kind = "up"

\* C5: with N templates, a Down event takes the cursor c to (c + 1) mod N and
\* an Up event to (c - 1 + N) mod N; k Down (Up) events in a row take it k
\* places on (back) round the circle, N of them back to where it was; an Up
\* right after a Down, and a Down right after an Up, undo it.
C5_CursorCyclic ==
    /\ [](run.kind = "down" => current = (run.cur + run.len) % Len(templates))
    /\ [](run.kind = "up" =>
             current = (run.cur + Len(templates) * run.len - run.len) % Len(templates))
    /\ [](run.kind \in { "down", "up" } /\ run.len = Len(templates) => current = run.cur)
    /\ [][DownStep => current' = (current + 1) % Len(templates)]_vars
    /\ [][UpStep => current' = (current - 1 + Len(templates)) % Len(templates)]_vars
    /\ [][DownStep /\ run.kind = "up" /\ run.len = 1 => current' = run.cur]_vars
    /\ [][UpStep /\ run.kind = "down" /\ run.len = 1 => current' = run.cur]_vars

\* three Down events in a row over three templates, begun at index 1, so the
\* cursor went through 2 and 0
C5_Witness ==
    /\ Len(templates) = 3
    /\ run.kind = "down" /\ run.len = 3 /\ run.cur = 1
    /\ current = 1

\* interactive_select is running
InSelect == pc \in { "tcgetattr", "setraw", "render", "read1", "read2", "read3",
                     "cancel", "finally", "clear" }

\* C6: interactive_select starts with cursor 0 and every flag false; while it
\* runs, 0 <= current < N and selected has N entries; it runs only with
\* N >= 1: with an empty index the go command exits with status 1 and the
\* terminal is never read, captured or changed.
C6_CursorValid ==
    /\ [](InSelect => /\ Len(templates) >= 1
                      /\ current \in 0..(Len(templates) - 1)
                      /\ Len(selected) = Len(templates))
    /\ [](pc \in { "tcgetattr", "setraw" } =>
             (current = 0 /\ \A i \in 1..Len(selected) : ~selected[i]))
    /\ [][pc = "setraw" /\ pc' = "render" =>
             (current' = 0 /\ \A i \in 1..Len(selected') : ~selected'[i])]_vars
    /\ [](state # "NotStarted" => Len(templates) >= 1)
    /\ [](DOMAIN files = {} =>
             /\ pc \in { "main", "exit" }
             /\ state = "NotStarted"
             /\ old_settings = "unset" /\ term \in TermModes /\ screen = << >>
             /\ (pc = "exit" => status = 1))

\* an Up event at index 0 of three templates put the cursor on the last one
C6_Witness ==
    /\ pc = "render"
    /\ Len(templates) = 3
    /\ run.kind = "up" /\ run.len = 1 /\ run.cur = 0
    /\ current = 2

\* C7: two Space events in a row, with no other key event between them,
\* leave the selection vector (and the cursor) as they were before the
\* first; one Space event alone flips the flag under the cursor.
C7_DoubleToggle ==
    /\ (run.kind = "toggle" /\ run.len = 2) => (selected = run.sel /\ current = run.cur)
    /\ (run.kind = "toggle" /\ run.len = 1) =>
          selected = [run.sel EXCEPT ![current + 1] = ~run.sel[current + 1]]

\* two Space events on the second template while the first is selected
C7_Witness ==
    /\ run.kind = "toggle" /\ run.len = 2
    /\ current = 1
    /\ selected[1] /\ ~selected[2]

\* the orders of the indices 1..n
Perms(n) == { q \in [1..n -> 1..n] : \A i, j \in 1..n : i # j => q[i] # q[j] }

\* s has every base template before every other one, each group ascending by
\* rel_path
InMergeOrder(s) ==
    \A i, j \in 1..Len(s) :
        i < j => \/ s[i].is_base /\ ~s[j].is_base
                 \/ s[i].is_base = s[j].is_base /\ StrLess(s[i].rel_path, s[j].rel_path)

\* C8: merge_templates works on the templates it was given in the order that
\* has the base templates first, then the others, each group ascending by
\* rel_path, whatever order they were passed in: the Sources comment, the
\* content blocks and the printed list all follow that one order, and hold
\* every template once.
C8_MergeOrder ==
    merged_content # << >> =>
        \E q \in Perms(Len(args)) :
            LET s == [k \in 1..Len(args) |-> args[q[k]]]
            IN /\ InMergeOrder(s)
               /\ merged_content[4] =
                      "<!-- Sources: " \o Join(", ", [k \in 1..Len(s) |-> s[k].rel_path]) \o " -->"
               /\ \A k \in 1..Len(s) :
                      merged_content[4 * k + 2] = Strip(FilterContent(files[s[k].path]))
               /\ pc = "merge_returned" =>
                      /\ Len(printed) = 2 + Len(s)
                      /\ \A k \in 1..Len(s) : printed[2 + k].text = "  - " \o s[k].rel_path

\* the example of the specification: b.md (base), a.md, c.md (base), passed
\* in that order, come out as b.md, c.md, a.md
C8_Witness ==
    /\ pc = "merge_returned"
    /\ args = << Item("b.md", TRUE), Item("a.md", FALSE), Item("c.md", TRUE) >>
    /\ merged_content[4] = "<!-- Sources: b.md, c.md, a.md -->"
    /\ merged_content[6] = "Body of b.md"
    /\ merged_content[14] = "Body of a.md"

\* how many of the lines of text are "---"
RuleLines(text) ==
    LET lines == Split(text, "\n")
    IN Cardinality({ i \in 1..Len(lines) : lines[i] = "---" })

\* C9: for n >= 1 templates merged_content is the five header lines, then
\* the n content blocks with "", "---", "" between each two neighbours and
\* nothing but these between them, then one "": n - 1 separators, none before
\* the first block or after the last; the written file has n - 1 "---" lines
\* when no content has one of its own.
C9_Separators ==
    merged_content # << >> =>
        LET n == Len(args)
        IN /\ Len(merged_content) = 5 + n + 3 * (n - 1) + 1
           /\ \A j \in 1..5 : merged_content[j] # "---"
           /\ \A k \in 1..n :
                \E p \in DOMAIN files : merged_content[4 * k + 2] = Strip(FilterContent(files[p]))
           /\ \A k \in 1..(n - 1) :
                /\ merged_content[4 * k + 3] = ""
                /\ merged_content[4 * k + 4] = "---"
                /\ merged_content[4 * k + 5] = ""
           /\ merged_content[4 * n + 3] = ""
           /\ (pc = "merge_returned" /\ \A p \in DOMAIN files : RuleLines(files[p]) = 0)
                 => RuleLines(outFile[1]) = n - 1

\* two templates merged: one separator in the file
C9_Witness ==
    /\ pc = "merge_returned"
    /\ Len(args) = 2
    /\ RuleLines(outFile[1]) = 1
    /\ merged_content[8] = "---"

\* the line begins with one of the two markers
IsMarker(line) == StartsWith(line, ExtendsMarker) \/ StartsWith(line, ThisExtensionMarker)

\* line i comes after a marker line with nothing but blockquote lines between
InBlock(lines, i) ==
    \E m \in 1..(i - 1) :
        /\ IsMarker(lines[m])
        /\ \A j \in (m + 1)..(i - 1) : StartsWith(lines[j], ">")

\* line i is a marker line, or a blockquote line or the first blank line of
\* the block a marker line opened
IsDropped(lines, i) ==
    \/ IsMarker(lines[i])
    \/ InBlock(lines, i) /\ (StartsWith(lines[i], ">") \/ Strip(lines[i]) = "")

RECURSIVE KeptFrom(_, _)
KeptFrom(lines, i) ==
    IF i > Len(lines) THEN << >>
    ELSE (IF IsDropped(lines, i) THEN << >> ELSE << lines[i] >>) \o KeptFrom(lines, i + 1)

\* the content block of a merge of one template is its lines without the
\* dropped ones, joined and trimmed
C10_FilterDropsBlocks ==
    (merged_content # << >> /\ Len(args) = 1) =>
        merged_content[6] = Strip(Join("\n", KeptFrom(Split(files[args[1].path], "\n"), 1)))

\* no line of the content block of a merge of one template begins with a marker
C10_NoMarkerLine ==
    (merged_content # << >> /\ Len(args) = 1) =>
        LET lines == Split(merged_content[6], "\n")
        IN \A i \in 1..Len(lines) : ~IsMarker(lines[i])

\* C10: the filter drops every marker line, the blockquote lines right after
\* it and the first blank line after them, and keeps every other line in
\* order; the example comes out as "Body text"; no line of the output begins
\* with a marker.
C10_Filter ==
    /\ C10_FilterDropsBlocks
    /\ (merged_content # << >> /\ DOMAIN files = { "t.md" }
        /\ files["t.md"] = "> **Extends:** base.md\n> This extension adds X.\n\nBody text")
           => merged_content[6] = "Body text"
    /\ C10_NoMarkerLine

\* the example of the specification was merged
C10_WitnessExample ==
    /\ pc = "merge_returned"
    /\ DOMAIN files = { "t.md" }
    /\ files["t.md"] = "> **Extends:** base.md\n> This extension adds X.\n\nBody text"
    /\ merged_content[6] = "Body text"

\* content has a line that begins with the extends or the this-extension marker
HasMarkerLine(content) ==
    LET lines == Split(content, "\n")
    IN \E i \in 1..Len(lines) : IsMarker(lines[i])

SelectorUnchanged == current' = current /\ selected' = selected /\ state' = state

\* ESC [ A moves the cursor up and ESC [ B moves it down
C12_ArrowsMove ==
    [][(pc = "read3" /\ pc' = "render") =>
         /\ ch' = "A" => (current' = MoveUp(current, Len(templates)) /\ selected' = selected)
         /\ ch' = "B" => (current' = MoveDown(current, Len(templates)) /\ selected' = selected)]_vars

\* the byte after ESC, and a byte other than A and B after ESC [, change nothing
C12_ParsedBytesSwallowed ==
    [][/\ (pc = "read2" /\ pc' # "finally") => SelectorUnchanged
       /\ (pc = "read3" /\ pc' = "render" /\ ch' \notin { "A", "B" }) => SelectorUnchanged]_vars

\* C12: ESC [ A acts as Up and ESC [ B as Down; no byte of any other escape
\* sequence, whatever its length, changes the cursor, a flag or the Running
\* state: not the byte after ESC, not the byte after ESC [, and not the bytes
\* of the key press that follow those (pending holds them at the next read).
C12_EscapeSequences ==
    [][/\ (pc = "read3" /\ pc' = "render") =>
            /\ ch' = "A" => (current' = MoveUp(current, Len(templates)) /\ selected' = selected)
            /\ ch' = "B" => (current' = MoveDown(current, Len(templates)) /\ selected' = selected)
       /\ (pc = "read2" /\ pc' # "finally") => SelectorUnchanged
       /\ (pc = "read3" /\ pc' = "render" /\ ch' \notin { "A", "B" }) => SelectorUnchanged
       /\ (pc = "read1" /\ pending # << >>) => SelectorUnchanged]_vars

\* the loop is at one of its three reads
AtRead == pc \in { "read1", "read2", "read3" }

\* C13: whenever the loop is at a read, exactly one render was completed
\* since the loop began or the last non-terminal key event (move, toggle,
\* ignored byte, ignored escape sequence) completed, so a render precedes the
\* first read and each later one; once the state is Confirmed or Cancelled
\* the list is never rendered again; the loop, a single thread at a single
\* place, is never at a read with a render or another read under way.
C13_RenderBeforeRead ==
    /\ [](AtRead => (frames = 1 /\ state = "Running"
                     /\ screen = RenderWrites(templates, selected, current)))
    /\ [](pc = "render" => (frames = 0 /\ state = "Running"))
    /\ [][(state \in { "Confirmed", "Cancelled" }) => (screen' = screen /\ frames' = frames)]_vars

\* the loop rendered again after a toggle and waits for the next key
C13_Witness ==
    /\ pc = "read1"
    /\ ch = " "
    /\ frames = 1
    /\ selected = << FALSE, TRUE >>
    /\ current = 1
    /\ screen = RenderWrites(templates, selected, current)

\* no output but render's redraw is ever written to a terminal in raw mode
C14_NoOutputWhileRaw ==
    \A k \in 1..Len(printed) : printed[k].tty # "raw"

\* C14 as first stated: the output other than render's redraw (the
\* "Cancelled." notice and its clear, the clear after a confirm, the messages
\* of merge_templates) is all written after the terminal was restored.
C14_AllOutputAfterRestore ==
    /\ C14_NoOutputWhileRaw
    /\ state = "Confirmed" =>
           \A k \in 1..Len(printed) : printed[k].tty = old_settings

\* C14: while the terminal is in raw mode the output is render's redraw and,
\* in the q / Ctrl-C branch, the screen clear and the "Cancelled." notice,
\* which write() sends with CR LF line ends before the finally block runs;
\* after a cancel nothing else is written.  After a confirm the screen clear
\* and the messages of merge_templates are written to the terminal with the
\* captured attributes back.
C14_OutputAndRestore ==
    /\ \A k \in 1..Len(printed) :
         printed[k].tty = "raw" =>
             (state = "Cancelled" /\ k <= 2 /\ printed[k].text = CancelWrites[k])
    /\ state = "Cancelled" =>
         (Len(printed) <= 2 /\ \A k \in 1..Len(printed) : printed[k].tty = "raw")
    /\ state = "Confirmed" =>
         \A k \in 1..Len(printed) : (printed[k].tty = old_settings /\ old_settings # "raw")
    /\ (state = "Confirmed" /\ pc \in { "returned", "merge", "merge_returned", "exit" }) =>
         (Len(printed) >= 1 /\ printed[1].text = ClearScreen)

\* the selection was confirmed and merged: the clear and the merge report
\* met the captured attributes
C14_Witness ==
    /\ pc = "merge_returned"
    /\ old_settings = "cbreak"
    /\ Len(printed) = 5
    /\ printed[1] = [text |-> ClearScreen, tty |-> "cbreak"]
    /\ printed[2] = [text |-> "Merged 2 template(s) into CLAUDE.md", tty |-> "cbreak"]

\* the "Cancelled." notice was written in raw mode and the terminal restored
\* after it
C14_WitnessCancelled ==
    /\ pc = "returned"
    /\ state = "Cancelled"
    /\ term = "cooked"
    /\ printed = << [text |-> ESC \o "[2J" \o ESC \o "[H", tty |-> "raw"],
                    [text |-> "Cancelled.\r\n", tty |-> "raw"] >>

\* the first 10 lines of the listed file, each trimmed
HeadOf(text) ==
    LET lines == ReadLines(text)
        n == IF Len(lines) < 10 THEN Len(lines) ELSE 10
    IN [i \in 1..n |-> Strip(lines[i])]

\* a description line: not empty, not starting with '#' or '>'
IsDescription(line) == line # "" /\ ~StartsWith(line, "#") /\ ~StartsWith(line, ">")

\* how many of the lines are scanned: up to the first description line
ScannedCount(head) ==
    IF \E i \in 1..Len(head) : IsDescription(head[i])
    THEN CHOOSE i \in 1..Len(head) :
            IsDescription(head[i]) /\ \A j \in 1..(i - 1) : ~IsDescription(head[j])
    ELSE Len(head)

\* the indices of the title lines and of the extends lines in the scanned range
TitleLines(head) == { i \in 1..ScannedCount(head) : StartsWith(head[i], "# ") }
ExtendsLines(head) ==
    { i \in 1..ScannedCount(head) :
        ~StartsWith(head[i], "# ") /\ StartsWith(head[i], ExtendsMarker) }

Smallest(S) == CHOOSE i \in S : \A j \in S : i <= j
Largest(S) == CHOOSE i \in S : \A j \in S : j <= i

\* the description is the first description line of the first 10 lines, or
\* empty; without a title line the title is the stem, without an extends line
\* there is no extends annotation
C15_RangeAndDefaults ==
    pc = "exit" =>
        LET t == templates[1]
            head == HeadOf(files["guide.md"])
            n == ScannedCount(head)
        IN /\ t.description = (IF n >= 1 /\ IsDescription(head[n]) THEN head[n] ELSE "")
           /\ TitleLines(head) = {} => t.title = "guide"
           /\ ExtendsLines(head) = {} => t.extends = << >>

\* title and extends annotation come from the last title line and the last
\* extends line of the scanned range
C15_LastLineWins ==
    pc = "exit" =>
        LET t == templates[1]
            head == HeadOf(files["guide.md"])
        IN /\ TitleLines(head) # {} =>
                t.title = Strip(Slice(head[Largest(TitleLines(head))], 2, 100))
           /\ ExtendsLines(head) # {} =>
                t.extends = << head[Largest(ExtendsLines(head))] >>

\* C15: the header scan examines the first 10 lines only and stops at the
\* first description line; the title is taken from the first line of the
\* scanned range that starts with "# " and the extends annotation is the
\* first line that starts with the extends marker (a later one does not
\* replace it); without such a line the title is the filename stem, and
\* without a description line the description is empty.
C15_HeaderScan ==
    pc = "exit" =>
        LET t == templates[1]
            head == HeadOf(files["guide.md"])
            n == ScannedCount(head)
        IN /\ t.description = (IF n >= 1 /\ IsDescription(head[n]) THEN head[n] ELSE "")
           /\ t.title = (IF TitleLines(head) = {} THEN "guide"
                         ELSE Strip(Slice(head[Smallest(TitleLines(head))], 2, 100)))
           /\ t.extends = (IF ExtendsLines(head) = {} THEN << >>
                           ELSE << head[Smallest(ExtendsLines(head))] >>)

\* a file with two title lines was listed under the second title
C15_WitnessSecondTitle ==
    /\ pc = "exit"
    /\ files["guide.md"] = "# One\n  # Two\nText"
    /\ templates[1].title = "Two"
    /\ templates[1].description = "Text"

\* the step completes a key event whose last byte was read at the place at
AppliedAt(at) == pc = at /\ pc' = "render"

\* exactly the flag under the cursor is flipped
FlipsOnlyCursorFlag ==
    /\ Len(selected') = Len(selected)
    /\ \A i \in 1..Len(selected) :
         selected'[i] = (IF i = current + 1 THEN ~selected[i] ELSE selected[i])

\* C16: a key event changes what its row of the table names and nothing
\* else.  k, j, ESC [ A and ESC [ B move the cursor by one, cyclically, and
\* leave every flag as it was; Space flips the flag under the cursor and
\* leaves the cursor and the other flags; a single byte that is none of
\* Enter, newline, q, Ctrl-C, ESC, k, j or Space leaves cursor and flags as
\* they were.  In each case the state stays Running.
C16_KeyEffects ==
    [][/\ ((AppliedAt("read1") /\ ch' = "k") \/ (AppliedAt("read3") /\ ch' = "A")) =>
            /\ current' = (current - 1) % Len(templates)
            /\ selected' = selected
            /\ state' = "Running"
       /\ ((AppliedAt("read1") /\ ch' = "j") \/ (AppliedAt("read3") /\ ch' = "B")) =>
            /\ current' = (current + 1) % Len(templates)
            /\ selected' = selected
            /\ state' = "Running"
       /\ (AppliedAt("read1") /\ ch' = " ") =>
            /\ FlipsOnlyCursorFlag
            /\ current' = current
            /\ state' = "Running"
       /\ (pc = "read1" /\ exc' = "none"
           /\ ch' \notin { "\r", "\n", "q", ETX, ESC, "k", "j", " " }) =>
            /\ current' = current
            /\ selected' = selected
            /\ state' = "Running"
            /\ pc' = "render"]_vars

\* Space was read with the cursor on the second of three rows, the first
\* already selected: the second flag is set too, the cursor stays
C16_Witness ==
    /\ pc = "render"
    /\ ch = " "
    /\ current = 1
    /\ selected = << TRUE, TRUE, FALSE >>
    /\ run.kind = "toggle" /\ run.len = 1
    /\ state = "Running"

\* the item row of the 1-based item i in a completed frame: the writes of a
\* frame are the clear, the heading, two per item, and the count
ItemRow(i) == screen[2 * i + 1]

\* C17: a completed render of N items holds exactly N item rows, the i-th
\* showing the i-th template of the index; the row of the current cursor, and
\* no other, carries '>'; a row shows "[x]" when its item's flag is set and
\* "[ ]" when it is not; the count written last is the number of flags set
\* in the state rendered.
C17_RenderRows ==
    AtRead =>
        LET N == Len(templates)
        IN /\ Len(screen) = 2 * N + 3
           /\ \A i \in 1..N :
                /\ Char(ItemRow(i), 2) = (IF i - 1 = current THEN ">" ELSE " ")
                /\ SubSeq(ItemRow(i), 4, 6) = (IF selected[i] THEN "[x]" ELSE "[ ]")
                /\ SubSeq(ItemRow(i), 8, 7 + Len(templates[i].rel_path)) = templates[i].rel_path
           /\ Cardinality({ i \in 1..N : Char(ItemRow(i), 2) = ">" }) = 1
           /\ screen[2 * N + 3] =
                "\r\n" \o IntStr(Cardinality({ i \in 1..N : selected[i] }))
                       \o " template(s) selected"

\* three items rendered with the cursor on the last and two flags set
C17_Witness ==
    /\ pc = "read1"
    /\ current = 2
    /\ selected = << TRUE, FALSE, TRUE >>
    /\ Len(screen) = 9
    /\ screen[3] = "   [x] base.md [BASE]\r\n"
    /\ screen[7] = " > [x] java/Base-style.md [BASE]\r\n"
    /\ screen[9] = "\r\n2 template(s) selected"

\* C19: the state leaves Running only in a step of the loop's first read
\* (ch = sys.stdin.read(1), the first byte of what the loop takes as a key
\* event) that returns Enter or newline, to Confirmed, or q or Ctrl-C, to
\* Cancelled; the reads of the second and third byte after ESC never change
\* the state, whatever byte they return; an empty read changes nothing and
\* the loop renders again in Running.  From Confirmed and from Cancelled the
\* state never changes again, no byte is read and no flag changes.
C19_LeavingRunning ==
    [][/\ (state = "Running" /\ state' # "Running") =>
            /\ pc = "read1"
            /\ \/ ch' \in { "\r", "\n" } /\ state' = "Confirmed"
               \/ ch' \in { "q", ETX } /\ state' = "Cancelled"
       /\ (pc = "read1" /\ exc' = "none" /\ ch' \in { "\r", "\n" }) => state' = "Confirmed"
       /\ (pc = "read1" /\ exc' = "none" /\ ch' \in { "q", ETX }) => state' = "Cancelled"
       /\ (pc \in { "read2", "read3" }) => state' = "Running"
       /\ (pc = "read1" /\ exc' = "none" /\ ch' = "") =>
            /\ state' = "Running"
            /\ pc' = "render"
            /\ current' = current
            /\ selected' = selected
       /\ (state \in { "Confirmed", "Cancelled" }) =>
            /\ state' = state
            /\ selected' = selected
            /\ ch' = ch
            /\ pending' = pending]_vars

\* q came as the byte after ESC, with a flag set: the loop goes on
C19_Witness ==
    /\ pc = "read1"
    /\ ch = "q"
    /\ state = "Running"
    /\ selected = << TRUE, FALSE >>
    /\ frames = 1

\* the first line of the success message was printed
SuccessPrinted ==
    \E k \in 1..Len(printed) : StartsWith(printed[k].text, "Merged ")

\* C20: merge_templates opens the output file only after every template was
\* read and filtered.  When reading a template fails the output file is what
\* it was before the call (absent, or its old content), it was never opened
\* for writing, and no success message is printed; the success message is
\* printed only with the write completed: the file was opened once and holds
\* the joined merged_content of all the templates.
C20_OutputAfterReads ==
    /\ (pc = "raised" /\ exc = "read" /\ args # << >>) =>
          /\ opens = 0
          /\ outFile \in { << >>, << "old" >> }
          /\ merged_content = << >>
          /\ ~SuccessPrinted
    /\ opens > 0 =>
          /\ merged_content = MergedContent(SortedTemplates(args), files)
          /\ Len(merged_content) = 4 * Len(args) + 3
    /\ SuccessPrinted =>
          /\ opens = 1
          /\ exc = "none"
          /\ outFile = << Join("\n", merged_content) >>

\* reading a selected template failed with an output file from before in
\* place: it still holds its old content
C20_Witness ==
    /\ pc = "raised"
    /\ exc = "read"
    /\ Len(args) = 2
    /\ opens = 0
    /\ outFile = << "old" >>
    /\ state = "Confirmed"

\* at the read after ESC the terminal is raw, the loop Running, and the frame
\* on the screen is the one drawn before ESC was read
C18_BlockedInRaw ==
    pc = "read2" =>
        /\ ch = ESC
        /\ term = "raw"
        /\ state = "Running"
        /\ frames = 1
        /\ screen = RenderWrites(templates, selected, current)

\* C18: after a lone ESC the loop waits in ch2 = sys.stdin.read(1) with the
\* terminal raw and the state Running, and the only step that leaves that
\* place is the return (or the failure) of this read: with no further byte
\* there is no render, no change of cursor or flags and no Confirmed or
\* Cancelled, for ever.  Conversely, when every read returns in the end and a
\* first read returns Enter, newline, q or Ctrl-C in the end, the loop, unless
\* a read or a write raises, reaches Confirmed or Cancelled.
C18_EscBlocksLoopEnds ==
    /\ [](pc = "read2" =>
            (ch = ESC /\ term = "raw" /\ state = "Running" /\ frames = 1
             /\ screen = RenderWrites(templates, selected, current)))
    /\ [][(pc = "read2") => ReadEsc2]_vars
    /\ (state = "Running") ~> (state \in { "Confirmed", "Cancelled" } \/ exc # "none")

\* ESC was read after a toggle and a move: the loop waits for the next byte
C18_Witness ==
    /\ pc = "read2"
    /\ ch = ESC
    /\ pending = << >>
    /\ term = "raw"
    /\ selected = << TRUE, FALSE >>
    /\ current = 1

====
